---- MODULE Spec2Model ----
(***************************************************************************)
(* A model of gwpy/timeseries/io/gwf/framecpp.py: reading series from the  *)
(* frames of a GWF file (read_gwf and the decoders it calls) and writing a *)
(* series into a frame (write, append_to_frame, create_frvect).            *)
(*                                                                         *)
(* GPS times, offsets and sample steps are integers, so every division the *)
(* code makes is exact rational arithmetic here; 0 is the code's sentinel  *)
(* for "no start" / "no end".                                              *)
(***************************************************************************)
EXTENDS Integers, Sequences, FiniteSets, TLC

\* ------------------------------------------------------------------ bounds
MaxFrames == 2      \* frames in a file, and the stream's reported count
FrameDt == 2        \* duration of every frame of a file
MaxSamp == 3        \* samples of a vector given to the decoders directly
MaxDx == 3          \* sample step of such a vector
MaxVT == 6          \* largest request time given to the decoders directly
MaxLen == 2         \* samples of a series that is written
MaxReq == 5         \* largest request time given to read_gwf

\* ------------------------------------------------------------------ values
Max(a, b) == IF a >= b THEN a ELSE b

Min(a, b) == IF a <= b THEN a ELSE b

\* ceil(a / b) of the true division of lines 23, 406, for a >= 0 and b > 0
ceil(a, b) == (a + b - 1) \div b

\* The outcomes of a decoder: a series, the _Skip exception, the value None,
\* or another exception that leaves the call.
Series(t0, dx, val, name, unit) ==
    [kind |-> "series", t0 |-> t0, dx |-> dx, val |-> val, name |-> name, unit |-> unit]

\* raise _Skip()
Skip == [kind |-> "skip"]

\* the Python value None
None == [kind |-> "none"]

Raise(what) == [kind |-> "error", what |-> what]

\* series.span: the half-open segment [t0, t0 + n*dx)
SpanOf(s) == [lo |-> s.t0, hi |-> s.t0 + Len(s.val) * s.dx]

\* Segment(start, end): the constructor orders its two arguments
Segment(a, b) == [lo |-> Min(a, b), hi |-> Max(a, b)]

\* `seg in other` for two segments
SegIn(seg, other) == other.lo <= seg.lo /\ other.hi >= seg.hi

\* arr[a:b] of Python, a >= 0; hasB is FALSE for b = None; a negative b
\* counts from the end of the array
Slice(arr, a, hasB, b) ==
    LET n == Len(arr)
        lo == Min(a, n)
        hi == IF ~hasB THEN n ELSE IF b < 0 THEN Max(0, n + b) ELSE Min(b, n)
    IN IF hi > lo THEN SubSeq(arr, lo + 1, hi) ELSE << >>

\* Series.append(other) of the series collaborator: in-place, time-ordered
\* concatenation; a series has one t0 and one dx, so the other must start
\* where this one ends, with the same step and unit.
append(self, other) ==
    IF other.kind # "series" THEN Raise("AppendError")
    ELSE IF other.dx # self.dx \/ other.unit # self.unit
            \/ other.t0 # SpanOf(self).hi THEN Raise("AppendError")
    ELSE [self EXCEPT !.val = self.val \o other.val]

\* read_frvect slicing only when the first index is not 0 (line 410 as
\* `if nxstart:`), so that a request from the vector's start is not trimmed
read_frvect_StartOnly(vect, epoch, start, end, name) ==
    IF vect.name # "" /\ name # "" /\ vect.name # name THEN Skip
    ELSE
    LET nsamp == Len(vect.data)
        dx == vect.dx
        dimstart == epoch + vect.x0
        dimend == dimstart + nsamp * dx
        nxstart == Max(0, start - dimstart) \div dx
        hasEnd == end # 0
        nxend == IF hasEnd THEN nsamp - ceil(Max(0, dimend - end), dx) ELSE 0
        arr == IF nxstart # 0
               THEN Slice(vect.data, nxstart, hasEnd, nxend)
               ELSE vect.data
        unit == IF vect.unit = "" THEN "None" ELSE vect.unit
    IN IF nxstart >= nsamp THEN Skip
       ELSE Series(dimstart + nxstart * dx, dx, arr, vect.name, unit)

\* ------------------------------------------------------------ read_frvect
\* vect: [name, x0, dx, data, unit]; epoch is the start of the FrData
read_frvect(vect, epoch, start, end, name) ==
    IF vect.name # "" /\ name # "" /\ vect.name # name THEN Skip
    ELSE
    LET nsamp == Len(vect.data)
        dx == vect.dx
        x0 == vect.x0
        dimstart == epoch + x0
        dimend == dimstart + nsamp * dx
        nxstart == Max(0, start - dimstart) \div dx
        hasEnd == end # 0
        nxend == IF hasEnd THEN nsamp - ceil(Max(0, dimend - end), dx) ELSE 0
        arr == IF nxstart # 0 \/ (hasEnd /\ nxend # 0)
               THEN Slice(vect.data, nxstart, hasEnd, nxend)
               ELSE vect.data
        unit == IF vect.unit = "" THEN "None" ELSE vect.unit
    IN IF nxstart >= nsamp THEN Skip
       ELSE Series(dimstart + nxstart * dx, dx, arr, vect.name, unit)

\* ------------------------------------------------------------ read_frdata
\* lines 353-356: the first fragment becomes out, later ones are appended
Accumulate(out, new) ==
    IF new.kind = "skip" THEN out
    ELSE IF out.kind = "none" THEN new
    ELSE append(out, new)

\* the loop of lines 344-357 over frdata.data[j]; an exception of append
\* leaves the loop
RECURSIVE FrdataLoop(_, _, _, _, _, _, _)
FrdataLoop(vects, j, out, datastart, start, end, name) ==
    IF j > Len(vects) \/ out.kind = "error" THEN out
    ELSE FrdataLoop(vects, j + 1,
                    Accumulate(out, read_frvect(vects[j], datastart, start, end, name)),
                    datastart, start, end, name)

\* frdata: [type, timeOffset, trange, vects]; trange is 0 unless the record
\* has GetTRange (FrProcData)
read_frdata(frdata, epoch, start, end, name) ==
    LET datastart == epoch + frdata.timeOffset
        trange == frdata.trange
    IN IF (end # 0 /\ datastart >= end) \/ (trange # 0 /\ datastart + trange < start)
       THEN Skip
       ELSE FrdataLoop(frdata.vects, 1, None, datastart, start, end, name)

\* ------------------------------------------------------------ state
VARIABLES
    pc,        \* where the run is: "write", "open", "loop", "check", "done", "decode"
    err,       \* "" or the exception that left read_gwf
    channels,  \* read_gwf's channels argument, a sequence of names
    given,     \* read_gwf's ctype argument: name -> type, "" where not given
    ctype,     \* the resolved types (line 178)
    start,     \* read_gwf's start (0 for none)
    end,       \* read_gwf's end (0 for none)
    file,      \* the GWF file: reported frame count, frame count, TOC, first epoch
    stream,    \* the frames of the file read or written so far
    nframes,   \* line 175
    i,         \* line 184
    out,       \* line 181: name -> series, None, or absent
    keys,      \* the keys of out in insertion order
    reads,     \* the indices given to stream.ReadFrameN, in call order
    brk,       \* how the frame loop ended: "" (not yet), "eos", "covered", "raise"
    wr,        \* the arguments of write
    vin,       \* the arguments of a direct decoder call
    vres,      \* what read_frvect returned for vin
    dres       \* what read_frdata returned for vin

vars == <<pc, err, channels, given, ctype, start, end, file, stream, nframes, i,
          out, keys, reads, brk, wr, vin, vres, dres>>

Names == {"A", "B", "None"}

Types == {"sim", "proc", "adc"}

Absent == [kind |-> "absent"]

Pending == [kind |-> "pending"]

NoTypes == [c \in Names |-> ""]

NoOut == [c \in Names |-> Absent]

NoTOC == [sim |-> {}, proc |-> {}, adc |-> {}]

NoFile == [nframes |-> 0, fcount |-> 0, toc |-> NoTOC, epoch0 |-> 0]

NoCall == [kind |-> "nocall"]

\* ------------------------------------------------------ get_channel_types
\* the lookup of lines 272-278 in the order ADC, Proc, Sim
TocType_AdcFirst(toc, name) ==
    IF name \in toc.adc THEN "adc"
    ELSE IF name \in toc.proc THEN "proc"
    ELSE IF name \in toc.sim THEN "sim"
    ELSE ""

\* lines 272-278: the first of Sim, Proc, ADC whose name list holds the name
TocType(toc, name) ==
    IF name \in toc.sim THEN "sim"
    ELSE IF name \in toc.proc THEN "proc"
    ELSE IF name \in toc.adc THEN "adc"
    ELSE ""

\* the loop of lines 267-283 from channel k on; ct is the dict so far
RECURSIVE ChannelTypesLoop(_, _, _, _)
ChannelTypesLoop(toc, chans, k, ct) ==
    IF k > Len(chans) THEN [kind |-> "ok", ctype |-> ct]
    ELSE LET channel == chans[k]
             found == IF ct[channel] = "" THEN TocType(toc, channel) ELSE ct[channel]
         IN IF found = "" THEN Raise("ChannelNotFound")
            ELSE ChannelTypesLoop(toc, chans, k + 1, [ct EXCEPT ![channel] = found])

get_channel_types(toc, chans, ct) == ChannelTypesLoop(toc, chans, 1, ct)

\* ------------------------------------------------------------ _need_frame
_need_frame(frame, s, e) ==
    LET frstart == frame.epoch
        frend == frstart + frame.dt
    IN IF e # 0 /\ frstart >= e THEN FALSE
       ELSE IF s # 0 /\ frend <= s THEN FALSE
       ELSE TRUE

\* ------------------------------------------------------------ _read_channel
\* stream.ReadFr<Type>Data(num, name) raises when the frame holds no record
\* of that type and name; otherwise the record goes to read_frdata
_read_channel(frame, name, type, epoch, s, e) ==
    LET data == frame.data[name]
    IN IF data.kind = "absent" THEN Raise("ReaderError")
       ELSE IF data.type # type THEN Raise("ReaderError")
       ELSE read_frdata(data, epoch, s, e, name)

\* ------------------------------------------------------------ read_gwf
\* line 213, out[channel].append(new) with app its outcome
PutAppended(st, channel, app) ==
    IF app.kind = "error" THEN [st EXCEPT !.err = app.what]
    ELSE [st EXCEPT !.out[channel] = app]

\* lines 206-215 for one channel: st is [out, keys, err], new is what
\* _read_channel gave
PutChannel(st, channel, new) ==
    IF new.kind = "error" THEN [st EXCEPT !.err = new.what]
    ELSE IF new.kind = "skip" THEN st
    ELSE IF st.out[channel].kind = "absent"
    THEN [st EXCEPT !.out[channel] = new, !.keys = Append(st.keys, channel)]
    ELSE IF st.out[channel].kind = "none" THEN [st EXCEPT !.err = "AttributeError"]
    ELSE PutAppended(st, channel, append(st.out[channel], new))

\* lines 205-215 from channel k on; an exception leaves the loop
RECURSIVE ChannelLoop(_, _, _, _, _, _, _)
ChannelLoop(frame, chans, k, ct, s, e, st) ==
    IF k > Len(chans) \/ st.err # "" THEN st
    ELSE ChannelLoop(frame, chans, k + 1, ct, s, e,
             PutChannel(st, chans[k],
                        _read_channel(frame, chans[k], ct[chans[k]], frame.epoch, s, e)))

\* line 218: all(span in out[channel].span for channel in out), evaluated
\* key by key in insertion order; "yes", "no", or the exception raised when
\* an entry has no span
RECURSIVE AllCovered(_, _, _, _)
AllCovered(o, ks, k, span) ==
    IF k > Len(ks) THEN "yes"
    ELSE IF o[ks[k]].kind = "none" THEN "AttributeError"
    ELSE IF ~SegIn(span, SpanOf(o[ks[k]])) THEN "no"
    ELSE AllCovered(o, ks, k + 1, span)

\* line 193 as `if this > nframes`
OnIndexError_Strict(this, nf) == IF this > nf THEN "break" ELSE "raise"

\* lines 192-195: an IndexError of ReadFrameN(this) ends the loop when
\* this >= nframes and is raised again otherwise
OnIndexError(this, nf) == IF this >= nf THEN "break" ELSE "raise"

\* lines 217-219 after the channels of a frame were read without exception:
\* st is [out, keys, err], cov the outcome of line 218
AfterChannels(st, cov) ==
    [pc |-> IF cov = "yes" THEN "check" ELSE IF cov = "no" THEN "loop" ELSE "done",
     brk |-> IF cov = "yes" THEN "covered" ELSE IF cov = "no" THEN "" ELSE "raise",
     err |-> IF cov \in {"yes", "no"} THEN "" ELSE cov,
     out |-> st.out, keys |-> st.keys]

\* lines 205-219 for a frame that is needed; st is what the channel loop left
ReadChannels(st) ==
    IF st.err # ""
    THEN [pc |-> "done", brk |-> "raise", err |-> st.err, out |-> st.out, keys |-> st.keys]
    ELSE AfterChannels(st, AllCovered(st.out, st.keys, 1, Segment(start, end)))

\* lines 189-219, one pass of the loop body with `frame` what ReadFrameN(this)
\* gave: the next pc, how the loop ended, the exception, out and its keys
LoopBody(frame, this) ==
    IF frame.kind = "error"
    THEN IF OnIndexError(this, nframes) = "break"
         THEN [pc |-> "check", brk |-> "eos", err |-> "", out |-> out, keys |-> keys]
         ELSE [pc |-> "done", brk |-> "raise", err |-> frame.what, out |-> out, keys |-> keys]
    ELSE IF ~_need_frame(frame, start, end)
    THEN [pc |-> "loop", brk |-> "", err |-> "", out |-> out, keys |-> keys]
    ELSE ReadChannels(ChannelLoop(frame, channels, 1, ctype, start, end,
                                  [out |-> out, keys |-> keys, err |-> ""]))

\* lines 222-228 looking at the first requested channel only
Missing_FirstOnly(chans, o) == {k \in 1..Min(1, Len(chans)) : o[chans[k]].kind = "absent"}

\* lines 222-228: the requested channels with no entry in out
Missing(chans, o) == {k \in 1..Len(chans) : o[chans[k]].kind = "absent"}

\* ------------------------------------------------------------ the file
Vect(name, x0, dx, data, unit) ==
    [name |-> name, x0 |-> x0, dx |-> dx, data |-> data, unit |-> unit]

FrData(type, timeOffset, trange, vects) ==
    [kind |-> "frdata", type |-> type, timeOffset |-> timeOffset,
     trange |-> trange, vects |-> vects]

\* n samples of step 1 from time t on; a sample's value is its time
Samples(t, n) == [k \in 1..n |-> t + k - 1]

\* only an FrProcData has a time range
TRange(type, x) == IF type = "proc" THEN x ELSE 0

\* The records a frame at epoch e can hold for channel c as type t: data for
\* the whole frame, for its first sample only, for all but its first sample
\* (with a time offset), or a record without vectors.
RecordsAt(c, e, t) ==
    { FrData(t, 0, TRange(t, FrameDt), <<Vect(c, 0, 1, Samples(e, FrameDt), "m")>>),
      FrData(t, 0, TRange(t, 1), <<Vect(c, 0, 1, Samples(e, 1), "m")>>),
      FrData(t, 1, TRange(t, FrameDt - 1),
             <<Vect(c, 0, 1, Samples(e + 1, FrameDt - 1), "m")>>),
      FrData(t, 0, TRange(t, FrameDt), << >>) }

\* what frame number n of the file can be: consecutive frames of FrameDt,
\* each requested channel absent or held as a type the TOC lists it under
FramesAt(n) ==
    LET e == file.epoch0 + n * FrameDt
        req == {channels[k] : k \in 1..Len(channels)}
        recs(c) == IF c \in req
                   THEN {Absent} \cup
                        UNION {RecordsAt(c, e, t) : t \in {u \in Types : c \in file.toc[u]}}
                   ELSE {Absent}
    IN { [kind |-> "frame", epoch |-> e, dt |-> FrameDt, data |-> d] :
         d \in {f \in [Names -> UNION {recs(c) : c \in Names}] :
                  \A c \in Names : f[c] \in recs(c)} }

\* stream.ReadFrameN(this): IndexError past the last frame of the file
ReadFrameN(this) ==
    IF this >= file.fcount THEN {Raise("IndexError")}
    ELSE IF this < Len(stream) THEN {stream[this + 1]}
    ELSE FramesAt(this)

\* ------------------------------------------------------------ actions
\* read_gwf, lines 166-184
OpenGwf ==
    /\ pc = "open"
    /\ LET res == get_channel_types(file.toc, channels, given)
       IN IF res.kind = "error"
          THEN /\ pc' = "done"
               /\ err' = res.what
               /\ UNCHANGED ctype
          ELSE /\ pc' = "loop"
               /\ ctype' = res.ctype
               /\ UNCHANGED err
    /\ nframes' = file.nframes
    /\ out' = NoOut
    /\ keys' = << >>
    /\ i' = 0
    /\ UNCHANGED <<channels, given, start, end, file, stream, reads, brk, wr,
                   vin, vres, dres>>

\* read_gwf, lines 185-219: one pass of the frame loop
ReadGwfIter ==
    /\ pc = "loop"
    /\ \E frame \in ReadFrameN(i) :
         /\ i' = i + 1
         /\ reads' = Append(reads, i)
         /\ stream' = IF frame.kind = "frame" /\ i >= Len(stream)
                      THEN Append(stream, frame) ELSE stream
         /\ \E nxt \in {LoopBody(frame, i)} :
              /\ pc' = nxt.pc
              /\ brk' = nxt.brk
              /\ err' = nxt.err
              /\ out' = nxt.out
              /\ keys' = nxt.keys
    /\ UNCHANGED <<channels, given, ctype, start, end, file, nframes, wr,
                   vin, vres, dres>>

\* read_gwf, lines 221-230
ReadGwfCheck ==
    /\ pc = "check"
    /\ pc' = "done"
    /\ err' = IF Missing(channels, out) # {} THEN "ChannelReadError" ELSE ""
    /\ UNCHANGED <<channels, given, ctype, start, end, file, stream, nframes, i,
                   out, keys, reads, brk, wr, vin, vres, dres>>

NextRead == OpenGwf \/ ReadGwfIter \/ ReadGwfCheck

\* ------------------------------------------------------------ read_gwf runs
Epochs == {0, 1}

ReadTOC == [sim |-> {}, proc |-> {"A"}, adc |-> {"B"}]

\* a request [start, end), either side 0 for none
Requests(maxt) == {r \in (0..maxt) \X (0..maxt) : r[2] = 0 \/ r[1] <= r[2]}

InitRest ==
    /\ pc = "open"
    /\ err = ""
    /\ ctype = NoTypes
    /\ stream = << >>
    /\ nframes = 0
    /\ i = 0
    /\ out = NoOut
    /\ keys = << >>
    /\ reads = << >>
    /\ brk = ""
    /\ wr = NoCall
    /\ vin = NoCall
    /\ vres = Pending
    /\ dres = Pending

\* read_gwf on any file of consecutive frames holding A as proc and B as adc
Init ==
    /\ channels \in {<<"A">>, <<"A", "B">>}
    /\ given = NoTypes
    /\ \E r \in Requests(MaxReq) : start = r[1] /\ end = r[2]
    /\ file \in {f \in [nframes : 0..MaxFrames, fcount : 0..MaxFrames,
                         toc : {ReadTOC}, epoch0 : Epochs] :
                    f.nframes - f.fcount \in {-1, 0, 1}}
    /\ InitRest

Spec == Init /\ [][NextRead]_vars

\* ------------------------------------------------------------ type resolution
\* read_gwf with no bounds on a one-frame file whose table of contents lists
\* A and B under any of the three types, with any types given by the caller
InitTypes ==
    /\ channels \in {<<"A">>, <<"A", "B">>, <<"B", "A">>}
    /\ given \in {g \in [Names -> Types \cup {""}] : g["None"] = ""}
    /\ start = 0
    /\ end = 0
    /\ file \in [nframes : {1}, fcount : {1},
                 toc : [sim : SUBSET {"A", "B"}, proc : SUBSET {"A", "B"},
                        adc : SUBSET {"A", "B"}],
                 epoch0 : {1}]
    /\ InitRest

SpecTypes == InitTypes /\ [][NextRead]_vars

\* ------------------------------------------------------------ write
\* TimeSeries.crop(start, end) of the series collaborator: the samples with
\* start <= t < end
crop(ts, s, e) ==
    LET keep == {k \in 1..Len(ts.val) : s <= ts.t0 + (k - 1) * ts.dx
                                        /\ ts.t0 + (k - 1) * ts.dx < e}
        first == IF keep = {} THEN 1 ELSE CHOOSE k \in keep : \A m \in keep : k <= m
    IN [ts EXCEPT !.t0 = ts.t0 + (first - 1) * ts.dx,
                  !.val = SubSeq(ts.val, first, first + Cardinality(keep) - 1)]

\* lines 559-569
create_frvect(timeseries) ==
    Vect(timeseries.name, 0, timeseries.dx, timeseries.val, timeseries.unit)

\* lines 494-497: str(timeseries.channel) if the series has a channel, else
\* str(timeseries.name)
ChannelOf(timeseries) ==
    IF timeseries.channel # "" THEN timeseries.channel ELSE timeseries.name

\* str(timeseries.channel), "None" for a series without channel (line 527)
StrChannel(timeseries) ==
    IF timeseries.channel # "" THEN timeseries.channel ELSE "None"

\* lines 494-540: the record appended to the frame, under its name
append_to_frame(epoch, timeseries, type) ==
    LET channel == ChannelOf(timeseries)
        offset == timeseries.t0 - epoch
        span == Len(timeseries.val) * timeseries.dx
        vects == <<create_frvect(timeseries)>>
    IN IF type = "adc"
       THEN [kind |-> "ok", name |-> channel, data |-> FrData("adc", 0, 0, vects)]
       ELSE IF type = "proc"
       THEN [kind |-> "ok", name |-> channel, data |-> FrData("proc", offset, span, vects)]
       ELSE IF type = "sim"
       THEN [kind |-> "ok", name |-> StrChannel(timeseries),
             data |-> FrData("sim", offset, 0, vects)]
       ELSE Raise("RuntimeError")

\* lines 437-470 for a dict of one series: the frame's epoch and duration
\* and the record in it
write(ts, s, e) ==
    LET fstart == IF s = 0 THEN ts.t0 ELSE s
        fend == IF e = 0 THEN ts.t0 + Len(ts.val) * ts.dx ELSE e
        type == IF ts.ctype = "" THEN "proc" ELSE ts.ctype
        rec == append_to_frame(fstart, crop(ts, fstart, fend), type)
    IN [kind |-> "frame", epoch |-> fstart, dt |-> fend - fstart,
        data |-> [c \in Names |-> IF rec.kind = "ok" /\ c = rec.name
                                  THEN rec.data ELSE Absent]]

\* the table of contents of a file of one frame
TocOf(frame) ==
    [sim |-> {c \in Names : frame.data[c].kind = "frdata" /\ frame.data[c].type = "sim"},
     proc |-> {c \in Names : frame.data[c].kind = "frdata" /\ frame.data[c].type = "proc"},
     adc |-> {c \in Names : frame.data[c].kind = "frdata" /\ frame.data[c].type = "adc"}]

\* write, lines 432-473
WriteGwf ==
    /\ pc = "write"
    /\ pc' = "open"
    /\ \E frame \in {write(wr.ts, wr.start, wr.end)} :
         /\ stream' = <<frame>>
         /\ file' = [nframes |-> 1, fcount |-> 1, toc |-> TocOf(frame),
                     epoch0 |-> frame.epoch]
    /\ UNCHANGED <<err, channels, given, ctype, start, end, nframes, i, out, keys,
                   reads, brk, wr, vin, vres, dres>>

\* the series written: start, step, samples, name, channel ("" for none),
\* unit, and the channel's type ("" for none)
WrittenSeries ==
    [kind : {"series"}, t0 : 0..2, dx : 1..2,
     val : {[k \in 1..n |-> 10 + k] : n \in 1..MaxLen},
     name : {"A"}, channel : {"", "A", "B"}, unit : {"m"},
     ctype : Types \cup {""}]

\* write(series) with the frame's start and end taken from the series (0) or
\* given, the start at or one before the series' start; then read_gwf of the
\* channel's name over the span of the series
InitRT ==
    /\ \E ts \in WrittenSeries :
         \E s \in {0, ts.t0, ts.t0 - 1} :
           \E e \in {0, ts.t0 + Len(ts.val) * ts.dx} :
             /\ s >= 0
             /\ wr = [kind |-> "write", ts |-> ts, start |-> s, end |-> e]
             /\ channels = <<ChannelOf(ts)>>
             /\ start = ts.t0
             /\ end = ts.t0 + Len(ts.val) * ts.dx
    /\ given = NoTypes
    /\ file = NoFile
    /\ pc = "write"
    /\ err = ""
    /\ ctype = NoTypes
    /\ stream = << >>
    /\ nframes = 0
    /\ i = 0
    /\ out = NoOut
    /\ keys = << >>
    /\ reads = << >>
    /\ brk = ""
    /\ vin = NoCall
    /\ vres = Pending
    /\ dres = Pending

NextRT == WriteGwf \/ NextRead

SpecRT == InitRT /\ [][NextRT]_vars

\* ------------------------------------------------------------ decoder calls
\* read_frvect(vect, epoch, start, end, name=name), lines 360-427
ReadFrvect ==
    /\ pc = "decode"
    /\ vres.kind = "pending"
    /\ vres' = read_frvect(vin.vect, vin.epoch + vin.frdata.timeOffset, start, end, vin.name)
    /\ UNCHANGED <<pc, err, channels, given, ctype, start, end, file, stream, nframes,
                   i, out, keys, reads, brk, wr, vin, dres>>

\* read_frdata(frdata, epoch, start, end, name=name), lines 298-357
ReadFrdata ==
    /\ pc = "decode"
    /\ dres.kind = "pending"
    /\ dres' = read_frdata(vin.frdata, vin.epoch, start, end, vin.name)
    /\ UNCHANGED <<pc, err, channels, given, ctype, start, end, file, stream, nframes,
                   i, out, keys, reads, brk, wr, vin, vres>>

NextVect == ReadFrvect \/ ReadFrdata

\* a vector of n samples whose values are their indices 0 .. n-1
Indexed(name, x0, dx, n) == Vect(name, x0, dx, [k \in 1..n |-> k - 1], "m")

\* The calls: a vector `vect` of 0..MaxSamp samples, named as the channel,
\* unnamed or named otherwise, in a record that holds it alone ("one"), after
\* a vector of another name ("two"), or holds no vector ("none"), with or
\* without a time range; any request up to MaxVT.  And the vector [100, 110)
\* of step 1 with every request inside [100, 110].
DecoderCalls ==
    { [epoch |-> ep, offset |-> off, ranged |-> tr, shape |-> sh, vect |-> v,
       start |-> r[1], end |-> r[2]] :
        ep \in {0, 1}, off \in {0, 1}, r \in Requests(MaxVT),
        v \in {Indexed(nm, x0, dx, n) :
                 nm \in {"", "A", "aux"}, x0 \in {0, 1}, dx \in 1..MaxDx, n \in 0..MaxSamp},
        tr \in BOOLEAN, sh \in {"none", "one", "two"} }
    \cup
    { [epoch |-> 100, offset |-> 0, ranged |-> TRUE, shape |-> "one",
       vect |-> Indexed("A", 0, 1, 10), start |-> r[1], end |-> r[2]] :
        r \in {q \in (100..110) \X (100..110) : q[1] <= q[2]} }

\* the FrProcData of a call: its time range, when it has one, is the span of
\* the vector
CallRecord(c) ==
    FrData("proc", c.offset,
           IF c.ranged THEN Len(c.vect.data) * c.vect.dx ELSE 0,
           IF c.shape = "none" THEN << >>
           ELSE IF c.shape = "one" THEN <<c.vect>>
           ELSE <<Indexed("aux", 0, c.vect.dx, 1), c.vect>>)

InitVect ==
    /\ \E c \in DecoderCalls :
         /\ vin = [kind |-> "call", epoch |-> c.epoch, name |-> "A",
                   vect |-> c.vect, frdata |-> CallRecord(c)]
         /\ start = c.start
         /\ end = c.end
    /\ pc = "decode"
    /\ channels = << >>
    /\ given = NoTypes
    /\ file = NoFile
    /\ err = ""
    /\ ctype = NoTypes
    /\ stream = << >>
    /\ nframes = 0
    /\ i = 0
    /\ out = NoOut
    /\ keys = << >>
    /\ reads = << >>
    /\ brk = ""
    /\ wr = NoCall
    /\ vres = Pending
    /\ dres = Pending

SpecVect == InitVect /\ [][NextVect]_vars

\* ------------------------------------------------------------ properties
Requested == {channels[k] : k \in 1..Len(channels)}

Returned == pc = "done" /\ err = ""

\* the series s holds a sample for every time of [lo, hi) on its grid
Covers(s, lo, hi) == s.kind = "series" /\ SegIn([lo |-> lo, hi |-> hi], SpanOf(s))

\* C1: whenever read_gwf returns for a bounded request [start, end), every
\* requested channel's series covers the whole of [start, end).
C1_FullCoverageOrFailure ==
    (Returned /\ start # 0 /\ start < end)
        => \A c \in Requested : Covers(out[c], start, end)

\* C1, amended: whenever read_gwf returns, the map holds an entry for every
\* requested channel (the entry need not cover the requested span).
C1_EveryChannelHasEntry ==
    Returned => \A c \in Requested : out[c].kind # "absent"

\* read_gwf returned A's series for a bounded request it covers only in part
C1_Witness ==
    /\ Returned
    /\ start # 0 /\ start < end
    /\ out["A"].kind = "series"
    /\ Len(out["A"].val) >= 1
    /\ SpanOf(out["A"]).hi < end
    /\ brk = "eos"

\* the time of the sample of vin.vect with index idx
SampleTime(idx) == vin.epoch + vin.frdata.timeOffset + vin.vect.x0 + idx * vin.vect.dx

InRequest(t) == start <= t /\ (end = 0 \/ t < end)

OnGrid(t) ==
    /\ t >= SampleTime(0)
    /\ t <= SampleTime(Len(vin.vect.data) - 1)
    /\ (t - SampleTime(0)) % vin.vect.dx = 0

IndexAt(t) == (t - SampleTime(0)) \div vin.vect.dx

\* C3: for a request whose start and end are sample times of the vector,
\* start < end, read_frvect returns exactly the samples with indices
\* (start-v0)/dx .. (end-v0)/dx - 1, as a series that starts at start.
C3_AlignedTrim ==
    (/\ vres.kind # "pending"
     /\ vin.vect.name \in {"", vin.name}
     /\ OnGrid(start) /\ OnGrid(end) /\ start < end)
        => /\ vres.kind = "series"
           /\ vres.t0 = start
           /\ vres.dx = vin.vect.dx
           /\ vres.val = [k \in 1..(IndexAt(end) - IndexAt(start)) |-> IndexAt(start) + k - 1]

\* the vector [100, 110) of step 1 read for [103, 107): indices 3, 4, 5, 6
C3_Witness ==
    /\ vin.kind = "call"
    /\ SampleTime(0) = 100 /\ Len(vin.vect.data) = 10 /\ vin.vect.dx = 1
    /\ start = 103 /\ end = 107
    /\ vres.kind = "series"
    /\ vres.val = <<3, 4, 5, 6>>
    /\ vres.t0 = 103

\* C4: a series of type adc, proc or sim that has a channel, written and read
\* back by its channel name over its span, comes back with the same start,
\* step, unit, name and samples.
C4_RoundTrip ==
    (pc = "done" /\ wr.kind = "write" /\ wr.ts.ctype \in Types /\ wr.ts.channel # "")
        => /\ err = ""
           /\ out[channels[1]] = Series(wr.ts.t0, wr.ts.dx, wr.ts.val, wr.ts.name, wr.ts.unit)

\* every frame read holds, for channel c, a record with one vector for the
\* whole frame
FullFrames(c) ==
    \A n \in 1..Len(stream) :
        /\ stream[n].data[c].kind = "frdata"
        /\ Len(stream[n].data[c].vects) = 1
        /\ Len(stream[n].data[c].vects[1].data) = FrameDt
        /\ stream[n].data[c].timeOffset = 0

\* the samples of channel c in the first n frames read, in frame order
RECURSIVE Slices(_, _)
Slices(c, n) == IF n = 0 THEN << >> ELSE Slices(c, n - 1) \o stream[n].data[c].vects[1].data

InToc(c) == c \in file.toc.sim \cup file.toc.proc \cup file.toc.adc

\* C6: once get_channel_types has run, a requested channel with a type given
\* by the caller has that type, one without has the first of sim, proc, adc
\* whose list holds its name, and the read has failed with the
\* channel-not-found error, with no frame read, exactly when some requested
\* channel has no given type and is in none of the lists.
C6_ChannelTypes ==
    pc # "open" =>
        IF \E c \in Requested : given[c] = "" /\ ~InToc(c)
        THEN pc = "done" /\ err = "ChannelNotFound" /\ reads = << >> /\ stream = << >>
        ELSE /\ err # "ChannelNotFound"
             /\ \A c \in Requested :
                  /\ ctype[c] \in Types
                  /\ given[c] # "" => ctype[c] = given[c]
                  /\ (given[c] = "" /\ c \in file.toc.sim) => ctype[c] = "sim"
                  /\ (given[c] = "" /\ c \notin file.toc.sim /\ c \in file.toc.proc)
                        => ctype[c] = "proc"
                  /\ (given[c] = "" /\ c \notin file.toc.sim /\ c \notin file.toc.proc)
                        => ctype[c] = "adc"

\* A, listed as proc and adc, resolved to proc beside B, given as adc
C6_Witness ==
    /\ pc = "loop"
    /\ channels = <<"A", "B">>
    /\ given["A"] = "" /\ given["B"] = "adc"
    /\ "A" \in file.toc.proc \cap file.toc.adc /\ "A" \notin file.toc.sim
    /\ ctype["A"] = "proc" /\ ctype["B"] = "adc"

\* C7: the frame loop ends on the coverage test (line 219), with frames of
\* the file left unread, only when every requested channel has a series that
\* covers the requested span.
C7_EarlyExitOnlyWhenAllCovered ==
    (brk = "covered" /\ Len(reads) < file.fcount) =>
        \A c \in Requested :
            /\ out[c].kind = "series"
            /\ SegIn(Segment(start, end), SpanOf(out[c]))

\* read_frvect skips every vector of the record read_frdata was given
AllVectorsSkipped ==
    \A j \in 1..Len(vin.frdata.vects) :
        read_frvect(vin.frdata.vects[j], vin.epoch + vin.frdata.timeOffset,
                    start, end, vin.name).kind = "skip"

\* C8: read_frdata signals skip when every vector of the record is skipped
\* or the record holds no vector.
C8_AllSkippedSignalsSkip ==
    (dres.kind # "pending" /\ AllVectorsSkipped) => dres.kind = "skip"

\* C9: a fragment read_frvect returns, called by read_frdata for a record
\* that holds the vector, has at least one sample.
C9_NeverEmptyFragment ==
    dres.kind = "series" => Len(dres.val) >= 1

Last(seq) == seq[Len(seq)]

\* C10: ReadFrameN is called with 0, 1, 2, ... in order; read_gwf fails with
\* the stream's IndexError exactly when the index that was out of the file's
\* range is below nframes, and otherwise that error ends the loop and the
\* run goes on to the check of the channels.
C10_IndexErrorHandling ==
    /\ reads = [k \in 1..Len(reads) |-> k - 1]
    /\ err = "IndexError" => (reads # << >> /\ Last(reads) >= file.fcount)
    /\ (reads # << >> /\ Last(reads) >= file.fcount) =>
          IF Last(reads) < nframes
          THEN pc = "done" /\ err = "IndexError"
          ELSE pc \in {"check", "done"} /\ brk = "eos" /\ err \in {"", "ChannelReadError"}

\* a frame was read, and the read of index 1, below the reported count of 2,
\* failed
C10_Witness ==
    /\ pc = "done" /\ err = "IndexError"
    /\ reads = <<0, 1>>
    /\ nframes = 2
    /\ Len(stream) = 1

====
